---- MODULE Spec2Model ----
(***************************************************************************)
(* A model of ptgott/todoist-backups.                                      *)
(*                                                                         *)
(*   apiclient.DoWithRetries       the retrying HTTP exchange  (SpecRetry)  *)
(*   todoist.LatestAvailableBackup the catalog selector       (SpecSelect) *)
(*   onedrive.cleanFilename        the name sanitizer         (SpecClean)  *)
(*   todoist.GetBackup             the capped download    (SpecGetBackup)  *)
(*   main and runBackup            the scheduling loop         (SpecMain)  *)
(*   config.General.Validate       the configuration check   (SpecConfig)  *)
(*   gdrive/onedrive UploadFile    the upload                (SpecUpload)  *)
(*                                                                         *)
(* Strings are sequences of one-character strings, so that parsing,        *)
(* trimming, splitting and replacing are computed character by character.  *)
(***************************************************************************)
EXTENDS Integers, Sequences, FiniteSets, TLC

VARIABLES
    \* apiclient.DoWithRetries
    pc,          \* "idle" | "send" | "sleep" | "done": position in DoWithRetries
    MaxRetries,  \* f.MaxRetries
    remaining,   \* the local `remaining`
    responses,   \* status codes received so far, one per completed c.Do
    sends,       \* number of calls of c.Do(req)
    sleeps,      \* number of calls of time.Sleep
    retResp,     \* returned *http.Response: its StatusCode, or NoResponse for nil
    retErr,      \* returned error: NoError for nil, else the kind of error
    \* todoist.LatestAvailableBackup
    spc,         \* "idle" | "ready" | "done"
    ab,          \* the argument, a sequence of AvailableBackup
    latest,      \* the returned AvailableBackup
    latestErr,   \* TRUE iff the returned error is non-nil
    \* onedrive.cleanFilename
    cpc,         \* "idle" | "ready" | "cleaned" | "recleaned"
    filename,    \* the argument of the first call
    cleaned,     \* result of cleanFilename(filename)
    recleaned,   \* result of cleanFilename applied to the first result's name
    \* todoist.GetBackup
    gpc,         \* "idle" | "call" | "done"
    maxBytes,    \* the argument maxBytes
    payload,     \* number of bytes of the backup the server holds
    readable,    \* number of bytes r.Body yields before it ends or fails
    gresp,       \* what DoWithRetries returned: NoResponse before the call
    written,     \* number of bytes written to w
    gerr,        \* the returned error, NoError for nil
    \* main and runBackup
    mpc,         \* "idle" | "start" | "cycle" | "returned" | "select" | "exited"
    oneshot,     \* *oneshot
    exit,        \* "none" | "oneshot" | "interrupted" | "fatal": which os.Exit ran
    tickerCreated, \* k := time.NewTicker(dur) has run
    tickPending, \* a tick is buffered in k.C
    sigPending,  \* an interrupt is buffered in g
    sigAt,       \* where main was when the latest interrupt was buffered
    cycles,      \* the latest calls of runBackup, oldest first
    \* config.General.Validate and main's handling of the configuration
    cfpc,        \* "idle" | "validate" | "validateDrive" | "parse" | "ready" | "exited"
    apiKey,      \* c.General.TodoistAPIKey
    interval,    \* c.General.BackupInterval
    verr,        \* what c.General.Validate() returned, NoError for nil
    dur,         \* what time.ParseDuration returned
    cferr,       \* the message of the log.Fatal() that ended the process
    \* UploadFile, as runBackup calls it
    upc,         \* "idle" | "call" | "done"
    dest,        \* "gdrive" | "onedrive": the package whose UploadFile is called
    uname,       \* the argument filename (u.Version in runBackup)
    usent,       \* the requests sent to the destination, in order
    uerr         \* the returned error, NoError for nil; "fatal" for log.Fatalf

retryVars == <<pc, MaxRetries, remaining, responses, sends, sleeps, retResp, retErr>>
selectVars == <<spc, ab, latest, latestErr>>
cleanVars == <<cpc, filename, cleaned, recleaned>>
backupVars == <<gpc, maxBytes, payload, readable, gresp, written, gerr>>
mainVars == <<mpc, oneshot, exit, tickerCreated, tickPending, sigPending, sigAt, cycles>>
configVars == <<cfpc, apiKey, interval, verr, dur, cferr>>
uploadVars == <<upc, dest, uname, usent, uerr>>
vars == <<retryVars, selectVars, cleanVars, backupVars, mainVars, configVars, uploadVars>>

(***************************************************************************)
(* Bounds of the model.                                                    *)
(***************************************************************************)
MaxRetriesBound == 3
MaxBackups == 3
MaxTokens == 3
PadLen == 396

(***************************************************************************)
(* Character-sequence helpers.                                             *)
(***************************************************************************)
DigitChars == <<"0", "1", "2", "3", "4", "5", "6", "7", "8", "9">>

isDigit(s, i) == i >= 1 /\ i <= Len(s) /\ \E d \in 1..10 : DigitChars[d] = s[i]

DigitVal(c) == (CHOOSE d \in 1..10 : DigitChars[d] = c) - 1

\* value of the two digits s[i], s[i+1]
Num2(s, i) == 10 * DigitVal(s[i]) + DigitVal(s[i + 1])

RECURSIVE Concat(_)
Concat(ss) == IF ss = <<>> THEN <<>> ELSE Head(ss) \o Concat(Tail(ss))

Repeat(c, n) == [i \in 1..n |-> c]

\* strings.Contains(s, sub)
Contains(s, sub) ==
    \E i \in 1..(Len(s) - Len(sub) + 1) :
        \A j \in 1..Len(sub) : s[i + j - 1] = sub[j]

(***************************************************************************)
(* apiclient.DoWithRetries                                                 *)
(***************************************************************************)
NoResponse == "nil"
NoError == "nil"

\* Status codes a server may answer with.
StatusCodes == {100, 200, 204, 301, 404, 418, 500, 503}

\* resp.StatusCode - (resp.StatusCode % 100)
StatusClass(code) == code - (code % 100)

\* remaining := f.MaxRetries, at the label send
InitRetry ==
    /\ MaxRetries \in 0..MaxRetriesBound
    /\ remaining = MaxRetries
    /\ pc = "send"
    /\ responses = <<>>
    /\ sends = 0
    /\ sleeps = 0
    /\ retResp = NoResponse
    /\ retErr = NoError
    \* the other components are not running
    /\ spc = "idle" /\ ab = <<>> /\ latestErr = FALSE
    /\ latest = [Version |-> <<>>, URL |-> ""]
    /\ cpc = "idle" /\ filename = <<>>
    /\ cleaned = [name |-> <<>>, err |-> FALSE, msg |-> "nil"]
    /\ recleaned = [name |-> <<>>, err |-> FALSE, msg |-> "nil"]
    /\ gpc = "idle" /\ maxBytes = 0 /\ payload = 0 /\ readable = 0
    /\ gresp = NoResponse /\ written = 0 /\ gerr = NoError
    /\ mpc = "idle" /\ oneshot = FALSE /\ exit = "none" /\ tickerCreated = FALSE
    /\ tickPending = FALSE /\ sigPending = FALSE /\ cycles = <<>>
    /\ sigAt = "none"
    /\ cfpc = "idle" /\ apiKey = "" /\ interval = <<>> /\ verr = NoError
    /\ dur = [err |-> NoError, neg |-> FALSE, parts |-> <<>>] /\ cferr = NoError
    /\ upc = "idle" /\ dest = "gdrive" /\ uname = <<>> /\ usent = <<>> /\ uerr = NoError

\* A variant that treats a transport failure like a server error
SendTransportError_Retried ==
    /\ pc = "send"
    /\ sends' = sends + 1
    /\ IF remaining > 0
       THEN /\ remaining' = remaining - 1
            /\ pc' = "sleep"
            /\ UNCHANGED <<retResp, retErr>>
       ELSE /\ retResp' = NoResponse
            /\ retErr' = "transport"
            /\ pc' = "done"
            /\ UNCHANGED remaining
    /\ UNCHANGED <<MaxRetries, responses, sleeps>>

\* c.Do(req) fails: return nil, err
SendTransportError ==
    /\ pc = "send"
    /\ sends' = sends + 1
    /\ retResp' = NoResponse
    /\ retErr' = "transport"
    /\ pc' = "done"
    /\ UNCHANGED <<MaxRetries, remaining, responses, sleeps>>

\* Variants of the retry test: one retry too many, one too few
CanRetry_OneMore(r) == r >= 0
CanRetry_OneLess(r) == r > 1

\* The retry test of case 500
CanRetry(r) == r > 0

\* A variant that also retries client errors
IsRetryable_Also4xx(code) == StatusClass(code) \in {400, 500}

\* The status classes that take the retry branch
IsRetryable(code) == StatusClass(code) = 500

\* The error returned with a response of the given status code
ErrorFor(code) ==
    CASE StatusClass(code) = 500 -> "retries exhausted"
      [] StatusClass(code) = 400 -> "client error"
      [] StatusClass(code) = 200 -> NoError
      [] OTHER -> "unexpected response code"

\* c.Do(req) answers with a response; the switch on its status class
SendResponse(code) ==
    /\ pc = "send"
    /\ sends' = sends + 1
    /\ responses' = Append(responses, code)
    /\ IF IsRetryable(code) /\ CanRetry(remaining)
       THEN /\ remaining' = remaining - 1
            /\ pc' = "sleep"
            /\ UNCHANGED <<retResp, retErr>>
       ELSE /\ retResp' = code
            /\ retErr' = ErrorFor(code)
            /\ pc' = "done"
            /\ UNCHANGED remaining
    /\ UNCHANGED <<MaxRetries, sleeps>>

\* A variant of Sleep that goes back to send without sleeping
Sleep_Skipped ==
    /\ pc = "sleep"
    /\ pc' = "send"
    /\ UNCHANGED <<MaxRetries, remaining, responses, sends, sleeps, retResp, retErr>>

\* time.Sleep(f.IntervalBetweenRetries); goto send
Sleep ==
    /\ pc = "sleep"
    /\ sleeps' = sleeps + 1
    /\ pc' = "send"
    /\ UNCHANGED <<MaxRetries, remaining, responses, sends, retResp, retErr>>

NextRetry ==
    \/ SendTransportError /\ UNCHANGED <<selectVars, cleanVars, backupVars, mainVars, configVars, uploadVars>>
    \/ (\E code \in StatusCodes : SendResponse(code)) /\ UNCHANGED <<selectVars, cleanVars, backupVars, mainVars, configVars, uploadVars>>
    \/ Sleep /\ UNCHANGED <<selectVars, cleanVars, backupVars, mainVars, configVars, uploadVars>>

SpecRetry == InitRetry /\ [][NextRetry]_vars

(***************************************************************************)
(* Properties of DoWithRetries.                                            *)
(***************************************************************************)
AllServerErrors(n) == \A i \in 1..n : StatusClass(responses[i]) = 500

\* C1: the request is sent at most MaxRetries+1 times; when every response
\* is 5xx, the call ends after exactly MaxRetries+1 sends (MaxRetries
\* retries) and returns the last response together with a non-nil error.
C1_BoundedAttempts ==
    /\ sends <= MaxRetries + 1
    /\ (pc = "done" /\ sends = Len(responses) /\ AllServerErrors(Len(responses)))
         => /\ sends = MaxRetries + 1
            /\ MaxRetries - remaining = MaxRetries
            /\ retResp = responses[Len(responses)]
            /\ retErr # NoError

C1_Witness ==
    /\ pc = "done" /\ MaxRetries = 2 /\ sends = 3 /\ Len(responses) = 3
    /\ AllServerErrors(3) /\ retResp = 503 /\ retErr = "retries exhausted"

\* C2: after k <= MaxRetries answers of 5xx the call is still going on, and
\* a 2xx answer to attempt k+1 ends it with that response, a nil error and
\* exactly k+1 sends.
C2_SuccessAfterServerErrors ==
    \A k \in 0..MaxRetries :
        (Len(responses) >= k /\ AllServerErrors(k)) =>
            /\ (Len(responses) = k /\ sends = k) => pc \in {"send", "sleep"}
            /\ (Len(responses) > k /\ StatusClass(responses[k + 1]) = 200) =>
                   /\ pc = "done"
                   /\ Len(responses) = k + 1
                   /\ sends = k + 1
                   /\ retResp = responses[k + 1]
                   /\ retErr = NoError

C2_Witness ==
    /\ pc = "done" /\ MaxRetries = 3 /\ Len(responses) = 4
    /\ AllServerErrors(3) /\ responses[4] = 200
    /\ retResp = 200 /\ retErr = NoError

\* C3: a response whose class is neither 2xx nor 5xx ends the exchange: it
\* is the last response, it is returned with a non-nil error, and no sleep
\* and no send follow it, whatever budget remains.
C3_NoRetryOnOtherClasses ==
    \A i \in 1..Len(responses) :
        StatusClass(responses[i]) \notin {200, 500} =>
            /\ i = Len(responses)
            /\ pc = "done"
            /\ retResp = responses[i]
            /\ retErr \notin {NoError, "transport"}
            /\ sends = i
            /\ sleeps = i - 1
            /\ remaining = MaxRetries - (i - 1)

C3_Witness ==
    /\ pc = "done" /\ MaxRetries = 3 /\ responses = <<404>>
    /\ remaining = 3 /\ sends = 1 /\ sleeps = 0
    /\ retResp = 404 /\ retErr = "client error"

C3_WitnessOther ==
    /\ pc = "done" /\ responses = <<500, 301>> /\ remaining > 0
    /\ retResp = 301 /\ retErr = "unexpected response code"

\* C4: a transport failure on any attempt ends the call with that error and
\* no response, without a sleep and without a resend: every send that got
\* no response is the last one.
C4_TransportErrorNotRetried ==
    /\ retErr = "transport" =>
          /\ pc = "done"
          /\ retResp = NoResponse
          /\ sends = Len(responses) + 1
          /\ sleeps = Len(responses)
    /\ sends # Len(responses) => (pc = "done" /\ retErr = "transport")

C4_Witness ==
    /\ pc = "done" /\ retErr = "transport" /\ retResp = NoResponse
    /\ Len(responses) = 1 /\ remaining > 0 /\ sends = 2 /\ sleeps = 1

\* C23: the call sleeps once before each resend and at no other time: the
\* retries made so far are MaxRetries - remaining, with remaining never
\* below zero; a send is made only when every retry has had its sleep, so
\* that it follows as many sleeps as there were sends before it; and at the
\* return the sleeps are one fewer than the sends, the last send being
\* followed by none.
C23_OneSleepPerResend ==
    /\ remaining >= 0 /\ remaining <= MaxRetries
    /\ pc = "send" => (sleeps = sends /\ sleeps = MaxRetries - remaining)
    /\ pc = "sleep" => (sleeps = sends - 1 /\ sleeps = MaxRetries - remaining - 1)
    /\ pc = "done" => (sleeps = sends - 1 /\ sleeps = MaxRetries - remaining)

C23_Witness ==
    /\ pc = "done" /\ retErr = NoError
    /\ MaxRetries = 3 /\ remaining = 1
    /\ sends = 3 /\ sleeps = 2

(***************************************************************************)
(* todoist.LatestAvailableBackup                                           *)
(***************************************************************************)
\* Version labels a catalog may carry.
\* "2018-07-13 02:03"
V0203 == <<"2", "0", "1", "8", "-", "0", "7", "-", "1", "3", " ", "0", "2", ":", "0", "3">>
\* "2018-07-13 02:04"
V0204 == <<"2", "0", "1", "8", "-", "0", "7", "-", "1", "3", " ", "0", "2", ":", "0", "4">>
\* "2018-07-13 2:04"
V0204h == <<"2", "0", "1", "8", "-", "0", "7", "-", "1", "3", " ", "2", ":", "0", "4">>
\* "2018-07-13 02:06"
V0206 == <<"2", "0", "1", "8", "-", "0", "7", "-", "1", "3", " ", "0", "2", ":", "0", "6">>
\* "2016-02-29 00:00"
VLeapDay == <<"2", "0", "1", "6", "-", "0", "2", "-", "2", "9", " ", "0", "0", ":", "0", "0">>
\* "0001-01-01 00:00"
VZeroTime == <<"0", "0", "0", "1", "-", "0", "1", "-", "0", "1", " ", "0", "0", ":", "0", "0">>
\* "0000-12-31 23:59"
VYearZero == <<"0", "0", "0", "0", "-", "1", "2", "-", "3", "1", " ", "2", "3", ":", "5", "9">>
\* ""
VEmpty == <<>>
\* "2018-07-13"
VDateOnly == <<"2", "0", "1", "8", "-", "0", "7", "-", "1", "3">>
\* "2018-13-01 00:00"
VBadMonth == <<"2", "0", "1", "8", "-", "1", "3", "-", "0", "1", " ", "0", "0", ":", "0", "0">>
\* "2018-02-29 00:00"
VBadDay == <<"2", "0", "1", "8", "-", "0", "2", "-", "2", "9", " ", "0", "0", ":", "0", "0">>

ValidVersions == {V0203, V0204, V0204h, V0206, VLeapDay, VZeroTime, VYearZero}
InvalidVersions == {VEmpty, VDateOnly, VBadMonth, VBadDay}

\* The catalog entries the model draws from: every label with one URL, the
\* labels that can tie with a second URL, and entries with a blank URL.
Candidates ==
    {[Version |-> v, URL |-> "a"] : v \in ValidVersions \cup InvalidVersions}
    \cup {[Version |-> v, URL |-> "b"] : v \in {V0204, V0204h, VZeroTime}}
    \cup {[Version |-> v, URL |-> ""] : v \in {V0203, VEmpty}}

\* AvailableBackup{}
ZeroBackup == [Version |-> <<>>, URL |-> ""]

\* The zero time.Time (January 1, year 1, 00:00 UTC), in minutes since itself
ZeroTime == 0

isLeap(year) == year % 4 = 0 /\ (year % 100 # 0 \/ year % 400 = 0)

MonthDays == <<31, 28, 31, 30, 31, 30, 31, 31, 30, 31, 30, 31>>

daysIn(m, year) == IF m = 2 /\ isLeap(year) THEN 29 ELSE MonthDays[m]

RECURSIVE DaysBeforeMonth(_, _)
DaysBeforeMonth(m, year) ==
    IF m = 1 THEN 0 ELSE DaysBeforeMonth(m - 1, year) + daysIn(m - 1, year)

\* Days from January 1 of year 1 to January 1 of `year` (negative for year 0)
DaysBeforeYear(year) ==
    LET y == year - 1
    IN  365 * y + (y \div 4) - (y \div 100) + (y \div 400)

\* time.Date(year, month, day, hour, min, 0, 0, UTC) as minutes since the zero time
Minutes(year, month, day, hour, min) ==
    ((DaysBeforeYear(year) + DaysBeforeMonth(month, year) + (day - 1)) * 24 + hour) * 60 + min

\* Number of consecutive spaces of v from position i on (cutspace)
RECURSIVE SpaceRun(_, _)
SpaceRun(v, i) ==
    IF i <= Len(v) /\ v[i] = " " THEN 1 + SpaceRun(v, i + 1) ELSE 0

ParseError == [ok |-> FALSE, t |-> ZeroTime]

\* time.Parse(todoistTimeFormat, v) with todoistTimeFormat = "2006-01-02 15:04":
\* a four-digit year, "-", a two-digit month, "-", a two-digit day, a run of
\* spaces, an hour of one or two digits, ":", a two-digit minute, and
\* nothing after it; month, hour, minute and day of month in range.
Parse(v) ==
    IF ~(/\ Len(v) >= 10
         /\ \A i \in {1, 2, 3, 4, 6, 7, 9, 10} : isDigit(v, i)
         /\ v[5] = "-" /\ v[8] = "-")
    THEN ParseError
    ELSE
    LET year == 100 * Num2(v, 1) + Num2(v, 3)
        month == Num2(v, 6)
        day == Num2(v, 9)
        h == 11 + SpaceRun(v, 11)            \* where the hour starts
        twoDigitHour == isDigit(v, h + 1)
        hour == IF twoDigitHour THEN Num2(v, h) ELSE DigitVal(v[h])
        c == IF twoDigitHour THEN h + 2 ELSE h + 1   \* where ":" stands
    IN  IF /\ Len(v) >= 11 /\ v[11] = " "
           /\ isDigit(v, h)
           /\ Len(v) = c + 2
           /\ v[c] = ":"
           /\ isDigit(v, c + 1) /\ isDigit(v, c + 2)
           /\ month >= 1 /\ month <= 12
           /\ hour < 24
           /\ Num2(v, c + 1) < 60
           /\ day >= 1 /\ day <= daysIn(month, year)
        THEN [ok |-> TRUE, t |-> Minutes(year, month, day, hour, Num2(v, c + 1))]
        ELSE ParseError

\* m.After(latestTime)
After(m, u) == m > u

\* A variant of the loop that skips an unusable entry and goes on
RECURSIVE Scan_Skip(_, _, _, _)
Scan_Skip(list, i, latestTime, latestAB) ==
    IF i > Len(list) THEN [backup |-> latestAB, err |-> FALSE]
    ELSE IF list[i].URL = "" \/ ~Parse(list[i].Version).ok
         THEN Scan_Skip(list, i + 1, latestTime, latestAB)
         ELSE LET m == Parse(list[i].Version).t
              IN  IF After(m, latestTime)
                  THEN Scan_Skip(list, i + 1, m, list[i])
                  ELSE Scan_Skip(list, i + 1, latestTime, latestAB)

\* The loop `for _, t := range ab` from entry i on, with the running
\* latestTime and latestAB
RECURSIVE Scan(_, _, _, _)
Scan(list, i, latestTime, latestAB) ==
    IF i > Len(list) THEN [backup |-> latestAB, err |-> FALSE]
    ELSE IF list[i].URL = "" THEN [backup |-> ZeroBackup, err |-> TRUE]
    ELSE LET p == Parse(list[i].Version)
         IN  IF ~p.ok THEN [backup |-> ZeroBackup, err |-> TRUE]
             ELSE IF After(p.t, latestTime)
                  THEN Scan(list, i + 1, p.t, list[i])
                  ELSE Scan(list, i + 1, latestTime, latestAB)

LatestAvailableBackup_Skip(list) ==
    IF Len(list) = 0 THEN [backup |-> ZeroBackup, err |-> TRUE]
    ELSE Scan_Skip(list, 1, ZeroTime, ZeroBackup)

\* if len(ab) == 0, then the loop
LatestAvailableBackup(list) ==
    IF Len(list) = 0 THEN [backup |-> ZeroBackup, err |-> TRUE]
    ELSE Scan(list, 1, ZeroTime, ZeroBackup)

\* Catalogs of at most MaxBackups entries
Catalogs == UNION {[1..n -> Candidates] : n \in 0..MaxBackups}

InitSelect ==
    /\ spc = "ready"
    /\ ab \in Catalogs
    /\ latest = ZeroBackup
    /\ latestErr = FALSE
    \* the other components are not running
    /\ pc = "idle" /\ MaxRetries = 0 /\ remaining = 0 /\ responses = <<>>
    /\ sends = 0 /\ sleeps = 0 /\ retResp = NoResponse /\ retErr = NoError
    /\ cpc = "idle" /\ filename = <<>>
    /\ cleaned = [name |-> <<>>, err |-> FALSE, msg |-> "nil"]
    /\ recleaned = [name |-> <<>>, err |-> FALSE, msg |-> "nil"]
    /\ gpc = "idle" /\ maxBytes = 0 /\ payload = 0 /\ readable = 0
    /\ gresp = NoResponse /\ written = 0 /\ gerr = NoError
    /\ mpc = "idle" /\ oneshot = FALSE /\ exit = "none" /\ tickerCreated = FALSE
    /\ tickPending = FALSE /\ sigPending = FALSE /\ cycles = <<>>
    /\ sigAt = "none"
    /\ cfpc = "idle" /\ apiKey = "" /\ interval = <<>> /\ verr = NoError
    /\ dur = [err |-> NoError, neg |-> FALSE, parts |-> <<>>] /\ cferr = NoError
    /\ upc = "idle" /\ dest = "gdrive" /\ uname = <<>> /\ usent = <<>> /\ uerr = NoError

\* b, err := LatestAvailableBackup(ab)
Select ==
    /\ spc = "ready"
    /\ latest' = LatestAvailableBackup(ab).backup
    /\ latestErr' = LatestAvailableBackup(ab).err
    /\ spc' = "done"
    /\ UNCHANGED ab

NextSelect == Select /\ UNCHANGED <<retryVars, cleanVars, backupVars, mainVars, configVars, uploadVars>>

SpecSelect == InitSelect /\ [][NextSelect]_vars

(***************************************************************************)
(* Properties of LatestAvailableBackup.                                    *)
(***************************************************************************)
Usable(b) == b.URL # "" /\ Parse(b.Version).ok

TimeOf(b) == Parse(b.Version).t

\* C5: from a non-empty catalog whose entries all have a URL and a version
\* that parses, the call returns without error the first entry, in input
\* order, whose timestamp is not earlier than any other entry's.
C5_ReturnsLatest ==
    (spc = "done" /\ ab # <<>> /\ \A i \in 1..Len(ab) : Usable(ab[i])) =>
        /\ ~latestErr
        /\ \E i \in 1..Len(ab) :
              /\ latest = ab[i]
              /\ \A j \in 1..Len(ab) : TimeOf(ab[j]) <= TimeOf(ab[i])
              /\ \A j \in 1..(i - 1) : TimeOf(ab[j]) < TimeOf(ab[i])

\* C6: a call that returns no error returns an entry of the input list,
\* never the empty candidate and never one that is not in the input.
C6_ResultIsInputEntry ==
    (spc = "done" /\ ~latestErr) => \E i \in 1..Len(ab) : latest = ab[i]

\* C7: the call returns an error and the zero-valued candidate whenever the
\* list is empty or some entry, at any position, has an empty URL or a
\* version that does not parse.
C7_FailFast ==
    (spc = "done" /\ (ab = <<>> \/ \E i \in 1..Len(ab) : ~Usable(ab[i]))) =>
        (latestErr /\ latest = ZeroBackup)

C7_Witness ==
    /\ spc = "done" /\ Len(ab) = 3
    /\ Usable(ab[1]) /\ Usable(ab[2]) /\ ab[3].URL # "" /\ ~Parse(ab[3].Version).ok
    /\ latestErr /\ latest = ZeroBackup

(***************************************************************************)
(* onedrive.cleanFilename                                                  *)
(***************************************************************************)
MaxFilenameLen == 400

\* The characters of the class ["*:<>?\\|]
IllegalChars == {"\"", "*", ":", "<", ">", "?", "\\", "|"}

\* The names matched by ^(\.lock|CON|PRN|AUX|NUL|COM[0-9]|LPT[0-9]|_vti_|desktop\.ini)$
DisallowedNames ==
    {<<".", "l", "o", "c", "k">>,
     <<"C", "O", "N">>,
     <<"P", "R", "N">>,
     <<"A", "U", "X">>,
     <<"N", "U", "L">>,
     <<"_", "v", "t", "i", "_">>,
     <<"d", "e", "s", "k", "t", "o", "p", ".", "i", "n", "i">>}
    \cup {<<"C", "O", "M", DigitChars[d]>> : d \in 1..10}
    \cup {<<"L", "P", "T", DigitChars[d]>> : d \in 1..10}

TildeDollar == <<"~", "$">>
Vti == <<"_", "v", "t", "i", "_">>

\* A variant that rejects a name of exactly the maximal length
TooLong_AtLimit(s) == Len(s) >= MaxFilenameLen

\* len(filename) > 400
TooLong(s) == Len(s) > MaxFilenameLen

\* A variant that removes one leading and one trailing "/" only
TrimSlashes_Once(s) ==
    LET t == IF s # <<>> /\ s[1] = "/" THEN Tail(s) ELSE s
    IN  IF t # <<>> /\ t[Len(t)] = "/" THEN SubSeq(t, 1, Len(t) - 1) ELSE t

\* strings.Trim(s, "/"): s without all its leading and all its trailing "/"
TrimSlashes(s) ==
    LET keep == {i \in 1..Len(s) : s[i] # "/"}
    IN  IF keep = {} THEN <<>>
        ELSE LET first == CHOOSE i \in keep : \A j \in keep : i <= j
                 last == CHOOSE i \in keep : \A j \in keep : j <= i
             IN  SubSeq(s, first, last)

\* A variant whose character class also holds "/"
ReplaceIllegal_AlsoSlash(s) ==
    [i \in 1..Len(s) |-> IF s[i] \in IllegalChars \cup {"/"} THEN "_" ELSE s[i]]

\* regexp.MustCompile("[\"*:<>?\\\\|]").ReplaceAllString(s, "_")
ReplaceIllegal(s) == [i \in 1..Len(s) |-> IF s[i] \in IllegalChars THEN "_" ELSE s[i]]

\* _, fn := path.Split(s): what follows the final "/"
FileOf(s) ==
    LET slashes == {i \in 1..Len(s) : s[i] = "/"}
        k == IF slashes = {} THEN 0 ELSE CHOOSE i \in slashes : \A j \in slashes : j <= i
    IN  SubSeq(s, k + 1, Len(s))

\* strings.Split(s, "/"), as the set of its segments
Segments(s) ==
    LET cuts == {0, Len(s) + 1} \cup {i \in 1..Len(s) : s[i] = "/"}
    IN  {SubSeq(s, a + 1, b - 1) :
            <<a, b>> \in {c \in cuts \X cuts :
                            c[1] < c[2] /\ \A x \in cuts : ~(c[1] < x /\ x < c[2])}}

\* bn.MatchString(p)
IsDisallowedName(p) == p \in DisallowedNames

\* return "", errors.New(msg)
CleanError(msg) == [name |-> <<>>, err |-> TRUE, msg |-> msg]

\* A variant that looks for a disallowed name in the final segment only
cleanFilename_FileOnly(fname) ==
    IF TooLong(fname) THEN CleanError("cannot exceed 400 characters")
    ELSE IF Contains(FileOf(fname), TildeDollar) THEN CleanError("cannot include ~$")
    ELSE IF Contains(FileOf(fname), Vti) THEN CleanError("cannot include _vti_")
    ELSE IF IsDisallowedName(FileOf(fname))
         THEN CleanError("disallowed file/folder name")
    ELSE [name |-> ReplaceIllegal(TrimSlashes(fname)), err |-> FALSE, msg |-> "nil"]

\* sub stands in s at position i
HasAt(s, i, sub) ==
    i + Len(sub) - 1 <= Len(s) /\ \A j \in 1..Len(sub) : s[i + j - 1] = sub[j]

\* A variant that rejects "~$" and "_vti_" only at the start of the file name
cleanFilename_PrefixOnly(fname) ==
    IF TooLong(fname) THEN CleanError("cannot exceed 400 characters")
    ELSE IF HasAt(FileOf(fname), 1, TildeDollar) THEN CleanError("cannot include ~$")
    ELSE IF HasAt(FileOf(fname), 1, Vti) THEN CleanError("cannot include _vti_")
    ELSE IF \E p \in Segments(fname) : IsDisallowedName(p)
         THEN CleanError("disallowed file/folder name")
    ELSE [name |-> ReplaceIllegal(TrimSlashes(fname)), err |-> FALSE, msg |-> "nil"]

\* A variant that checks the length after the other checks
cleanFilename_LengthLast(fname) ==
    IF Contains(FileOf(fname), TildeDollar) THEN CleanError("cannot include ~$")
    ELSE IF Contains(FileOf(fname), Vti) THEN CleanError("cannot include _vti_")
    ELSE IF \E p \in Segments(fname) : IsDisallowedName(p)
         THEN CleanError("disallowed file/folder name")
    ELSE IF TooLong(fname) THEN CleanError("cannot exceed 400 characters")
    ELSE [name |-> ReplaceIllegal(TrimSlashes(fname)), err |-> FALSE, msg |-> "nil"]

\* cleanFilename(filename): the name, whether the error is non-nil, and
\* which error it is
cleanFilename(fname) ==
    IF TooLong(fname) THEN CleanError("cannot exceed 400 characters")
    ELSE IF Contains(FileOf(fname), TildeDollar) THEN CleanError("cannot include ~$")
    ELSE IF Contains(FileOf(fname), Vti) THEN CleanError("cannot include _vti_")
    ELSE IF \E p \in Segments(fname) : IsDisallowedName(p)
         THEN CleanError("disallowed file/folder name")
    ELSE [name |-> ReplaceIllegal(TrimSlashes(fname)), err |-> FALSE, msg |-> "nil"]

\* The pieces file names are put together from
Tokens ==
    {<<"/">>,
     <<":">>,
     <<"\\">>,
     <<"a">>,
     <<"_">>,
     <<"v", "t", "i">>,
     <<"~", "$">>,
     <<"C", "O", "N">>,
     <<"c", "o", "n">>,
     <<".", "l", "o", "c", "k">>,
     <<"_", "v", "t", "i", "_">>}

\* What a file name starts with: nothing, a directory, or PadLen filler
\* characters, which bring its length to both sides of MaxFilenameLen
Prefixes == {<<>>, <<"b", "/">>, Repeat("i", PadLen)}

\* File names: a prefix and up to MaxTokens pieces
Filenames ==
    {pre \o Concat(ts) :
        pre \in Prefixes, ts \in UNION {[1..k -> Tokens] : k \in 0..MaxTokens}}

NoResult == [name |-> <<>>, err |-> FALSE, msg |-> "nil"]

InitClean ==
    /\ cpc = "ready"
    /\ filename \in Filenames
    /\ cleaned = NoResult
    /\ recleaned = NoResult
    \* the other components are not running
    /\ pc = "idle" /\ MaxRetries = 0 /\ remaining = 0 /\ responses = <<>>
    /\ sends = 0 /\ sleeps = 0 /\ retResp = NoResponse /\ retErr = NoError
    /\ spc = "idle" /\ ab = <<>> /\ latestErr = FALSE
    /\ latest = [Version |-> <<>>, URL |-> ""]
    /\ gpc = "idle" /\ maxBytes = 0 /\ payload = 0 /\ readable = 0
    /\ gresp = NoResponse /\ written = 0 /\ gerr = NoError
    /\ mpc = "idle" /\ oneshot = FALSE /\ exit = "none" /\ tickerCreated = FALSE
    /\ tickPending = FALSE /\ sigPending = FALSE /\ cycles = <<>>
    /\ sigAt = "none"
    /\ cfpc = "idle" /\ apiKey = "" /\ interval = <<>> /\ verr = NoError
    /\ dur = [err |-> NoError, neg |-> FALSE, parts |-> <<>>] /\ cferr = NoError
    /\ upc = "idle" /\ dest = "gdrive" /\ uname = <<>> /\ usent = <<>> /\ uerr = NoError

\* fn, err := cleanFilename(filename)
Clean ==
    /\ cpc = "ready"
    /\ cleaned' = cleanFilename(filename)
    /\ cpc' = "cleaned"
    /\ UNCHANGED <<filename, recleaned>>

\* cleanFilename applied to the name the first call returned
CleanAgain ==
    /\ cpc = "cleaned"
    /\ ~cleaned.err
    /\ recleaned' = cleanFilename(cleaned.name)
    /\ cpc' = "recleaned"
    /\ UNCHANGED <<filename, cleaned>>

NextClean ==
    \/ Clean /\ UNCHANGED <<retryVars, selectVars, backupVars, mainVars, configVars, uploadVars>>
    \/ CleanAgain /\ UNCHANGED <<retryVars, selectVars, backupVars, mainVars, configVars, uploadVars>>

SpecClean == InitClean /\ [][NextClean]_vars

(***************************************************************************)
(* Properties of cleanFilename.                                            *)
(***************************************************************************)
HasCleaned == cpc \in {"cleaned", "recleaned"}

NoEdgeSlash(s) == s = <<>> \/ (s[1] # "/" /\ s[Len(s)] # "/")

NoIllegalChar(s) == \A i \in 1..Len(s) : s[i] \notin IllegalChars

NoDisallowedSegment(s) == \A p \in Segments(s) : p \notin DisallowedNames

\* C8: a name returned without error has none of the illegal characters,
\* no segment equal to a disallowed name, no leading and no trailing "/",
\* and at most 400 characters.
C8_ResultIsLegal ==
    (HasCleaned /\ ~cleaned.err) =>
        /\ NoIllegalChar(cleaned.name)
        /\ NoDisallowedSegment(cleaned.name)
        /\ NoEdgeSlash(cleaned.name)
        /\ Len(cleaned.name) <= MaxFilenameLen

\* C9: cleaning is idempotent: cleaning a returned name succeeds and
\* returns that same name.
C9_Idempotent ==
    cpc = "recleaned" => (~recleaned.err /\ recleaned.name = cleaned.name)

\* The inputs C10 is about: at most 400 characters, no leading or trailing
\* "/", no illegal character, no segment equal to a disallowed name.
CleanInput(s) ==
    /\ Len(s) <= MaxFilenameLen
    /\ NoEdgeSlash(s)
    /\ NoIllegalChar(s)
    /\ NoDisallowedSegment(s)

LowerLetters == <<"a", "b", "c", "d", "e", "f", "g", "h", "i", "j", "k", "l", "m", "n", "o", "p", "q", "r", "s", "t", "u", "v", "w", "x", "y", "z">>
UpperLetters == <<"A", "B", "C", "D", "E", "F", "G", "H", "I", "J", "K", "L", "M", "N", "O", "P", "Q", "R", "S", "T", "U", "V", "W", "X", "Y", "Z">>

ToUpperChar(c) ==
    IF \E i \in 1..26 : LowerLetters[i] = c
    THEN UpperLetters[CHOOSE i \in 1..26 : LowerLetters[i] = c]
    ELSE c

\* s and t are equal up to the case of their letters
EqualFold(s, t) ==
    Len(s) = Len(t) /\ \A i \in 1..Len(s) : ToUpperChar(s[i]) = ToUpperChar(t[i])

\* C11 as stated: the call fails for every path with a segment equal,
\* compared case-insensitively, to a disallowed name, wherever it stands.
C11_RejectsReservedAnyCase ==
    (HasCleaned /\ \E p \in Segments(filename) :
                      \E n \in DisallowedNames : EqualFold(p, n)) =>
        cleaned.err

\* C11 as amended: the call fails for every path with a segment exactly
\* equal (letter case included) to a disallowed name, wherever it stands;
\* the comparison is on whole segments of the input before replacement.
C11_RejectsReservedExact ==
    (HasCleaned /\ \E p \in Segments(filename) : p \in DisallowedNames) =>
        (cleaned.err /\ cleaned.name = <<>>)

C11_Witness ==
    /\ HasCleaned
    /\ Len(filename) <= MaxFilenameLen
    /\ <<"C", "O", "N">> \in Segments(filename)
    /\ filename[1] = "b"
    /\ FileOf(filename) = <<"a">>
    /\ cleaned.err /\ cleaned.msg = "disallowed file/folder name"

\* Position of the last "/" of s, 0 when it has none
LastSlash(s) ==
    LET slashes == {i \in 1..Len(s) : s[i] = "/"}
    IN  IF slashes = {} THEN 0 ELSE CHOOSE i \in slashes : \A j \in slashes : j <= i

\* C12 as stated: the call fails for every path with a segment, at any
\* position, that contains "~$" or "_vti_".
C12_RejectsSubstringAnySegment ==
    (HasCleaned /\ \E p \in Segments(filename) :
                      Contains(p, TildeDollar) \/ Contains(p, Vti)) =>
        cleaned.err

\* C12 as amended: the call fails for every path whose final segment (what
\* follows its last "/") contains "~$" or "_vti_" anywhere within it.
C12_RejectsSubstringFinalSegment ==
    (HasCleaned /\ \E i \in (LastSlash(filename) + 1)..Len(filename) :
                      HasAt(filename, i, TildeDollar) \/ HasAt(filename, i, Vti)) =>
        (cleaned.err /\ cleaned.name = <<>>)

C12_Witness ==
    /\ HasCleaned
    /\ Len(filename) <= MaxFilenameLen
    /\ filename = <<"b", "/", "a", "~", "$">>
    /\ cleaned.err /\ cleaned.msg = "cannot include ~$"

\* Number of "/" at the start and at the end of s
RECURSIVE LeadingSlashes(_)
LeadingSlashes(s) ==
    IF s # <<>> /\ Head(s) = "/" THEN 1 + LeadingSlashes(Tail(s)) ELSE 0

RECURSIVE TrailingSlashes(_)
TrailingSlashes(s) ==
    IF s # <<>> /\ s[Len(s)] = "/"
    THEN 1 + TrailingSlashes(SubSeq(s, 1, Len(s) - 1)) ELSE 0

\* s without one leading and without one trailing "/"
TrimOne(s) ==
    LET a == IF LeadingSlashes(s) > 0 THEN 2 ELSE 1
        b == IF TrailingSlashes(s) > 0 /\ Len(s) >= a THEN Len(s) - 1 ELSE Len(s)
    IN  SubSeq(s, a, b)

\* s without all its leading and all its trailing "/"
TrimAll(s) ==
    IF LeadingSlashes(s) = Len(s) THEN <<>>
    ELSE SubSeq(s, LeadingSlashes(s) + 1, Len(s) - TrailingSlashes(s))

\* C13 as stated: exactly one leading and one trailing "/" are removed, so
\* an input with two of them at an end keeps one in the result.
C13_TrimsOneSlash ==
    (HasCleaned /\ ~cleaned.err) => Len(cleaned.name) = Len(TrimOne(filename))

\* C13 as amended: every leading and every trailing "/" is removed, so the
\* result has none at either end, however many the input has there.
C13_TrimsAllSlashes ==
    (HasCleaned /\ ~cleaned.err) =>
        /\ NoEdgeSlash(cleaned.name)
        /\ Len(cleaned.name) = Len(TrimAll(filename))

C13_Witness ==
    /\ HasCleaned /\ ~cleaned.err
    /\ LeadingSlashes(filename) = 2
    /\ cleaned.name = <<"a">>

C15_LengthCheckedFirst ==
    HasCleaned =>
        /\ Len(filename) > MaxFilenameLen =>
              cleaned = [name |-> <<>>, err |-> TRUE,
                         msg |-> "cannot exceed 400 characters"]
        /\ Len(filename) <= MaxFilenameLen =>
              cleaned.msg # "cannot exceed 400 characters"

C15_Witness ==
    /\ HasCleaned
    /\ Len(filename) = MaxFilenameLen + 1
    /\ <<"C", "O", "N">> \in Segments(filename)
    /\ cleaned.err /\ cleaned.msg = "cannot exceed 400 characters"

C15_WitnessAtLimit ==
    /\ HasCleaned
    /\ Len(filename) = MaxFilenameLen
    /\ ~cleaned.err /\ Len(cleaned.name) = MaxFilenameLen

(***************************************************************************)
(* main and runBackup: the scheduling loop (src/main.go).                  *)
(*                                                                         *)
(* main registers the channel g for os.Interrupt, loads and validates the  *)
(* configuration, calls runBackup once, exits 0 when *oneshot is set, and  *)
(* otherwise creates a ticker and loops over a select on the ticker's      *)
(* channel and g.  runBackup runs four steps in order and ends the process *)
(* through log.Fatal() when one of them returns an error.                  *)
(***************************************************************************)

\* Number of calls of runBackup the model tells apart and keeps a record of;
\* older records are dropped and later ordinals saturate.
MaxCycles == 3

\* The calls runBackup makes, in order.
Steps == <<"GetAvailableBackups", "LatestAvailableBackup", "GetBackup", "UploadFile">>

\* The exit code of each way the process ends: os.Exit(0) for oneshot and for
\* the interrupt, os.Exit(1) from zerolog's log.Fatal().
ExitCode(e) == IF e = "fatal" THEN 1 ELSE 0

\* The record of a call of runBackup: results holds one entry for each step
\* that has returned, TRUE for a nil error.
NewCycle(trigger) ==
    [id |-> IF cycles = <<>> THEN 1
            ELSE IF cycles[Len(cycles)].id < MaxCycles THEN cycles[Len(cycles)].id + 1
            ELSE MaxCycles,
     trigger |-> trigger, results |-> <<>>, status |-> "running"]

StartCycle(trigger) ==
    IF Len(cycles) < MaxCycles THEN Append(cycles, NewCycle(trigger))
    ELSE Append(Tail(cycles), NewCycle(trigger))

Running == {i \in 1..Len(cycles) : cycles[i].status = "running"}

\* main is blocked in the select of its loop; it gets there only when the
\* call of runBackup has returned.
AtSelect_Anytime == mpc \in {"select", "cycle"}

AtSelect == mpc = "select"

\* if *oneshot { os.Exit(0) }
OneshotSelected_Ignored == FALSE

OneshotSelected == oneshot

\* case <-g is ready.  Go's select picks uniformly at random among the ready
\* cases, so a ready tick does not disable it.
CanReceiveInterrupt_TickFirst == sigPending /\ ~tickPending

CanReceiveInterrupt == sigPending

InitMain ==
    /\ mpc = "start" /\ oneshot \in BOOLEAN /\ exit = "none"
    /\ tickerCreated = FALSE /\ tickPending = FALSE /\ sigPending = FALSE
    /\ sigAt = "none"
    /\ cycles = <<>>
    /\ pc = "idle" /\ MaxRetries = 0 /\ remaining = 0 /\ responses = <<>>
    /\ sends = 0 /\ sleeps = 0 /\ retResp = NoResponse /\ retErr = NoError
    /\ spc = "idle" /\ ab = <<>> /\ latestErr = FALSE
    /\ latest = [Version |-> <<>>, URL |-> ""]
    /\ cpc = "idle" /\ filename = <<>>
    /\ cleaned = [name |-> <<>>, err |-> FALSE, msg |-> "nil"]
    /\ recleaned = [name |-> <<>>, err |-> FALSE, msg |-> "nil"]
    /\ gpc = "idle" /\ maxBytes = 0 /\ payload = 0 /\ readable = 0
    /\ gresp = NoResponse /\ written = 0 /\ gerr = NoError
    /\ cfpc = "idle" /\ apiKey = "" /\ interval = <<>> /\ verr = NoError
    /\ dur = [err |-> NoError, neg |-> FALSE, parts |-> <<>>] /\ cferr = NoError
    /\ upc = "idle" /\ dest = "gdrive" /\ uname = <<>> /\ usent = <<>> /\ uerr = NoError

\* runBackup(c), the call before the loop
RunInitialBackup ==
    /\ mpc = "start"
    /\ cycles' = StartCycle("initial")
    /\ mpc' = "cycle"
    /\ UNCHANGED <<oneshot, sigAt, exit, tickerCreated, tickPending, sigPending>>

\* The next step of call i returns a nil error; after the last step runBackup
\* returns to its caller.
StepSucceeds(i) ==
    /\ i \in Running
    /\ LET c == cycles[i]
           r == Append(c.results, TRUE)
           last == Len(r) = Len(Steps)
       IN /\ cycles' = [cycles EXCEPT ![i] =
                          [c EXCEPT !.results = r,
                                    !.status = IF last THEN "done" ELSE "running"]]
          /\ mpc' = IF ~last THEN mpc
                    ELSE IF c.trigger = "initial" THEN "returned" ELSE "select"
    /\ UNCHANGED <<oneshot, sigAt, exit, tickerCreated, tickPending, sigPending>>

\* The mutation of StepFails that logs the error and goes on.
StepFails_LogAndContinue(i) ==
    /\ i \in Running
    /\ LET c == cycles[i]
           r == Append(c.results, FALSE)
           last == Len(r) = Len(Steps)
       IN /\ cycles' = [cycles EXCEPT ![i] =
                          [c EXCEPT !.results = r,
                                    !.status = IF last THEN "done" ELSE "running"]]
          /\ mpc' = IF ~last THEN mpc
                    ELSE IF c.trigger = "initial" THEN "returned" ELSE "select"
    /\ UNCHANGED <<oneshot, sigAt, exit, tickerCreated, tickPending, sigPending>>

\* The next step of call i returns an error: log.Fatal() ends the process.
StepFails(i) ==
    /\ i \in Running
    /\ cycles' = [cycles EXCEPT ![i] =
                    [cycles[i] EXCEPT !.results = Append(cycles[i].results, FALSE),
                                      !.status = "failed"]]
    /\ mpc' = "exited"
    /\ exit' = "fatal"
    /\ UNCHANGED <<oneshot, sigAt, tickerCreated, tickPending, sigPending>>

\* if *oneshot { os.Exit(0) }; k := time.NewTicker(dur)
CheckOneshot ==
    /\ mpc = "returned"
    /\ IF OneshotSelected
       THEN /\ mpc' = "exited"
            /\ exit' = "oneshot"
            /\ UNCHANGED tickerCreated
       ELSE /\ mpc' = "select"
            /\ tickerCreated' = TRUE
            /\ UNCHANGED exit
    /\ UNCHANGED <<oneshot, sigAt, tickPending, sigPending, cycles>>

\* The ticker fires: k.C holds one tick, a tick that finds it full is dropped.
Tick ==
    /\ mpc # "exited"
    /\ tickerCreated
    /\ ~tickPending
    /\ tickPending' = TRUE
    /\ UNCHANGED <<mpc, oneshot, exit, tickerCreated, sigPending, sigAt, cycles>>

\* The process is sent an interrupt: g holds one signal.
Interrupt ==
    /\ mpc # "exited"
    /\ ~sigPending
    /\ sigPending' = TRUE
    /\ sigAt' = IF mpc = "cycle"
                THEN Steps[Len(cycles[Len(cycles)].results) + 1]
                ELSE mpc
    /\ UNCHANGED <<mpc, oneshot, exit, tickerCreated, tickPending, cycles>>

\* case <-k.C: runBackup(c)
ReceiveTick ==
    /\ AtSelect
    /\ tickPending
    /\ tickPending' = FALSE
    /\ cycles' = StartCycle("tick")
    /\ mpc' = "cycle"
    /\ UNCHANGED <<oneshot, sigAt, exit, tickerCreated, sigPending>>

\* A variant of ReceiveInterrupt that ends the process at once, also while
\* runBackup is in progress.
ReceiveInterrupt_Preempt ==
    /\ mpc \in {"select", "cycle"}
    /\ CanReceiveInterrupt
    /\ sigPending' = FALSE
    /\ mpc' = "exited"
    /\ exit' = "interrupted"
    /\ UNCHANGED <<oneshot, sigAt, tickerCreated, tickPending, cycles>>

\* case <-g: os.Exit(0)
ReceiveInterrupt ==
    /\ AtSelect
    /\ CanReceiveInterrupt
    /\ sigPending' = FALSE
    /\ mpc' = "exited"
    /\ exit' = "interrupted"
    /\ UNCHANGED <<oneshot, sigAt, tickerCreated, tickPending, cycles>>

Step == \E i \in Running : StepSucceeds(i) \/ StepFails(i)

NextMain ==
    \/ RunInitialBackup /\ UNCHANGED <<retryVars, selectVars, cleanVars, backupVars, configVars, uploadVars>>
    \/ (\E i \in Running : StepSucceeds(i))
          /\ UNCHANGED <<retryVars, selectVars, cleanVars, backupVars, configVars, uploadVars>>
    \/ (\E i \in Running : StepFails(i))
          /\ UNCHANGED <<retryVars, selectVars, cleanVars, backupVars, configVars, uploadVars>>
    \/ CheckOneshot /\ UNCHANGED <<retryVars, selectVars, cleanVars, backupVars, configVars, uploadVars>>
    \/ Tick /\ UNCHANGED <<retryVars, selectVars, cleanVars, backupVars, configVars, uploadVars>>
    \/ Interrupt /\ UNCHANGED <<retryVars, selectVars, cleanVars, backupVars, configVars, uploadVars>>
    \/ ReceiveTick /\ UNCHANGED <<retryVars, selectVars, cleanVars, backupVars, configVars, uploadVars>>
    \/ ReceiveInterrupt /\ UNCHANGED <<retryVars, selectVars, cleanVars, backupVars, configVars, uploadVars>>

SpecMain == InitMain /\ [][NextMain]_vars

\* The steps of main and of runBackup are taken when they can be: the process
\* keeps running and each call returns.  The select is fair to the interrupt
\* because it chooses at random among its ready cases.
FairSpecMain ==
    /\ SpecMain
    /\ WF_mainVars(RunInitialBackup)
    /\ WF_mainVars(Step)
    /\ WF_mainVars(CheckOneshot)
    /\ SF_mainVars(ReceiveInterrupt)

(***************************************************************************)
(* Properties of the scheduling loop.                                      *)
(***************************************************************************)

LastCycle == cycles[Len(cycles)]

\* C16: at most one call of runBackup is in progress at any time; a call
\* starts only when every earlier one has completed, and a tick that arrives
\* while a call is in progress waits in the channel and starts nothing.
C16_OneCycleAtATime ==
    /\ Cardinality(Running) <= 1
    /\ \A i \in 1..Len(cycles) :
          i < Len(cycles) => cycles[i].status = "done"
    /\ (Running # {}) <=> (mpc = "cycle")

C16_Witness ==
    /\ mpc = "cycle"
    /\ tickPending
    /\ Len(cycles) >= 2
    /\ Running = {Len(cycles)}
    /\ LastCycle.results = <<TRUE, TRUE>>

\* C17: the first call of runBackup is made at startup, before the ticker
\* exists; every later call is made for a received tick; with oneshot set
\* the process makes that one call, never creates the ticker nor reaches the
\* select, and exits with code 0 when the call has returned.
C17_InitialThenTicks ==
    /\ (cycles = <<>>) <=> (mpc = "start")
    /\ cycles = <<>> => ~tickerCreated /\ ~tickPending
    /\ \A i \in 1..Len(cycles) :
          /\ (cycles[i].id = 1) <=> (cycles[i].trigger = "initial")
          /\ cycles[i].trigger = "initial" => i = 1
          /\ cycles[i].trigger = "tick" => tickerCreated
    /\ oneshot =>
          /\ Len(cycles) <= 1
          /\ ~tickerCreated /\ ~tickPending
          /\ mpc # "select"
          /\ exit # "interrupted"
          /\ (mpc = "exited" /\ LastCycle.status = "done") =>
                exit = "oneshot" /\ ExitCode(exit) = 0
          /\ (mpc = "returned") => LastCycle.status = "done"
    /\ ~oneshot => exit # "oneshot"
    /\ (exit = "oneshot") => (mpc = "exited")

C17_Witness ==
    /\ oneshot
    /\ mpc = "exited" /\ exit = "oneshot"
    /\ sigPending
    /\ Len(cycles) = 1
    /\ cycles[1] = [id |-> 1, trigger |-> "initial",
                    results |-> <<TRUE, TRUE, TRUE, TRUE>>, status |-> "done"]

C17_WitnessDaemon ==
    /\ ~oneshot
    /\ mpc = "cycle"
    /\ Len(cycles) = 2
    /\ cycles[1].trigger = "initial" /\ cycles[1].status = "done"
    /\ cycles[2].trigger = "tick" /\ cycles[2].id = 2

\* C18: in daemon mode an interrupt that has been delivered to the process
\* leads to the process's exit, also when ticks keep arriving.
C18_InterruptLeadsToExit ==
    (~oneshot /\ sigPending) ~> (mpc = "exited")

C18_Witness ==
    /\ ~oneshot
    /\ mpc = "exited" /\ exit = "interrupted" /\ ExitCode(exit) = 0
    /\ tickPending
    /\ LastCycle.trigger = "tick" /\ LastCycle.status = "done"

\* C19: an error of any step ends the process with a nonzero exit code before
\* the next step; the failed call is the last one, so no call follows it and
\* no step follows the failed step, and UploadFile runs only when the three
\* steps before it have succeeded.
C19_FailureIsFatal ==
    /\ \A i \in 1..Len(cycles) :
          LET r == cycles[i].results
          IN /\ Len(r) <= Len(Steps)
             /\ \A j \in 1..Len(r) : ~r[j] =>
                   /\ j = Len(r)
                   /\ i = Len(cycles)
                   /\ cycles[i].status = "failed"
                   /\ mpc = "exited" /\ exit = "fatal" /\ ExitCode(exit) # 0
             /\ cycles[i].status = "failed" => Len(r) >= 1 /\ ~r[Len(r)]
             /\ cycles[i].status = "done" =>
                   r = <<TRUE, TRUE, TRUE, TRUE>>
             /\ (Len(r) = Len(Steps) \/ (Len(r) = 3 /\ cycles[i].status = "running")) =>
                   r[1] /\ r[2] /\ r[3]
    /\ (exit = "fatal") =>
          mpc = "exited" /\ cycles # <<>> /\ LastCycle.status = "failed"

C19_Witness ==
    /\ ~oneshot
    /\ mpc = "exited" /\ exit = "fatal"
    /\ Len(cycles) >= 2
    /\ LastCycle.trigger = "tick"
    /\ LastCycle.results = <<TRUE, TRUE, FALSE>>
    /\ tickPending

C19_WitnessOneshot ==
    /\ oneshot
    /\ mpc = "exited" /\ exit = "fatal"
    /\ cycles[1].results = <<FALSE>>

(***************************************************************************)
(* todoist.GetBackup: the capped download (src/todoist/todoist.go).        *)
(*                                                                         *)
(* The server holds a backup of payload bytes.  r.Body yields readable of  *)
(* them, readable <= payload: all of them when the transfer goes well, and *)
(* fewer when the connection breaks, in which case the read after the last *)
(* byte returns an error.  The writer is a bytes.Buffer, whose Write does  *)
(* not fail.                                                               *)
(***************************************************************************)

\* Largest value of maxBytes; payloads run up to two bytes beyond it.
MaxBytesBound == 3

SizeError == "backup size exceeded upload limit"

\* What DoWithRetries hands back for a final response with the given status
\* code: its error is nil for the 2xx class only.
DoResult(code) == [code |-> code, err |-> ErrorFor(code)]

\* c.Do failed: no response.
TransportFailure == [code |-> 0, err |-> "transport error"]

Results == {DoResult(code) : code \in StatusCodes} \cup {TransportFailure}

\* io.Copy(w, io.LimitReader(r.Body, maxBytes)): the number of bytes copied.
Copied(avail, cap) == IF avail < cap THEN avail ELSE cap

\* The error of io.Copy: the body's read error, met only when the limit was
\* not reached first.
CopyError(size, avail, cap) ==
    IF avail < size /\ avail < cap THEN "read error" ELSE NoError

\* The mutation of the size test that lets a truncated copy through.
SizeExceeded_Strict(i, cap) == i > cap

\* if i >= maxBytes
SizeExceeded(i, cap) == i >= cap

\* The returned error and the number of bytes written to w.
GetBackupResult(res, size, avail, cap) ==
    IF res.err # NoError
    THEN [err |-> "unexpected response", written |-> 0]
    ELSE IF res.code # 200
    THEN [err |-> "got client error", written |-> 0]
    ELSE LET i == Copied(avail, cap)
         IN [err |-> IF SizeExceeded(i, cap) THEN SizeError
                     ELSE CopyError(size, avail, cap),
             written |-> i]

InitGetBackup ==
    /\ gpc = "call"
    /\ maxBytes \in 1..MaxBytesBound
    /\ payload \in 0..(MaxBytesBound + 2)
    /\ readable \in 0..(MaxBytesBound + 2)
    /\ readable <= payload
    /\ gresp = NoResponse /\ written = 0 /\ gerr = NoError
    /\ pc = "idle" /\ MaxRetries = 0 /\ remaining = 0 /\ responses = <<>>
    /\ sends = 0 /\ sleeps = 0 /\ retResp = NoResponse /\ retErr = NoError
    /\ spc = "idle" /\ ab = <<>> /\ latestErr = FALSE
    /\ latest = [Version |-> <<>>, URL |-> ""]
    /\ cpc = "idle" /\ filename = <<>>
    /\ cleaned = [name |-> <<>>, err |-> FALSE, msg |-> "nil"]
    /\ recleaned = [name |-> <<>>, err |-> FALSE, msg |-> "nil"]
    /\ mpc = "idle" /\ oneshot = FALSE /\ exit = "none" /\ tickerCreated = FALSE
    /\ tickPending = FALSE /\ sigPending = FALSE /\ cycles = <<>>
    /\ sigAt = "none"
    /\ cfpc = "idle" /\ apiKey = "" /\ interval = <<>> /\ verr = NoError
    /\ dur = [err |-> NoError, neg |-> FALSE, parts |-> <<>>] /\ cferr = NoError
    /\ upc = "idle" /\ dest = "gdrive" /\ uname = <<>> /\ usent = <<>> /\ uerr = NoError

\* err := todoist.GetBackup(&buf, token, u.URL, maxBytes)
GetBackup ==
    /\ gpc = "call"
    /\ \E res \in Results :
          /\ gresp' = res
          /\ gerr' = GetBackupResult(res, payload, readable, maxBytes).err
          /\ written' = GetBackupResult(res, payload, readable, maxBytes).written
    /\ gpc' = "done"
    /\ UNCHANGED <<maxBytes, payload, readable>>

NextGetBackup ==
    GetBackup /\ UNCHANGED <<retryVars, selectVars, cleanVars, mainVars, configVars, uploadVars>>

SpecGetBackup == InitGetBackup /\ [][NextGetBackup]_vars

\* The request was answered with 200.
GotOK == gpc = "done" /\ gresp.err = NoError /\ gresp.code = 200

\* C20 as stated: the size error exactly when the payload is larger than
\* maxBytes, a payload of at most maxBytes bytes that is read in full is
\* accepted, and never more than maxBytes bytes written.
C20_RejectsOnlyAboveCap ==
    /\ gpc = "done" => written <= maxBytes
    /\ GotOK =>
          /\ payload > maxBytes => gerr # NoError
          /\ readable = payload => ((gerr = SizeError) <=> (payload > maxBytes))
          /\ (payload <= maxBytes /\ readable = payload) => gerr = NoError

\* C20, amended: the size error exactly when maxBytes bytes of the payload
\* were read, so that a payload of maxBytes bytes or more is never a success
\* and one of fewer bytes that is read in full is; a success has the whole
\* payload in the buffer, and never more than maxBytes bytes are written.
C20_RejectsAtCap ==
    /\ gpc = "done" => written <= maxBytes
    /\ (gpc = "done" /\ ~GotOK) => (gerr # NoError /\ written = 0)
    /\ GotOK =>
          /\ (gerr = SizeError) <=> (readable >= maxBytes)
          /\ payload >= maxBytes => gerr # NoError
          /\ readable = payload => ((gerr = SizeError) <=> (payload >= maxBytes))
          /\ (payload < maxBytes /\ readable = payload) =>
                (gerr = NoError /\ written = payload)
          /\ gerr = NoError => written = payload

C20_Witness ==
    /\ GotOK
    /\ payload = maxBytes /\ readable = payload
    /\ gerr = SizeError /\ written = maxBytes

C20_WitnessAbove ==
    /\ GotOK
    /\ payload > maxBytes /\ readable = payload
    /\ gerr = SizeError /\ written = maxBytes

C20_WitnessBelow ==
    /\ GotOK
    /\ payload = maxBytes - 1 /\ readable = payload /\ payload >= 1
    /\ gerr = NoError /\ written = payload

(***************************************************************************)
(* config.General.Validate and the handling of the configuration in main   *)
(* (src/unnamed/part_003, src/main.go).                                    *)
(*                                                                         *)
(* main validates the general configuration, then the destination's, then  *)
(* parses the backup interval with time.ParseDuration; log.Fatal() ends    *)
(* the process at the first error.                                         *)
(***************************************************************************)

\* Length of the longest backup interval string.
MaxIntervalLen == 3

\* The characters backup intervals are written with.
IntervalChars == {"0", "3", "h", "m", "s", "n", "u", "µ", "y", "-"}

Intervals == UNION {[1..k -> IntervalChars] : k \in 0..MaxIntervalLen}

ApiKeys == {"", "123abc"}

\* The alternation of the regular expression: (ns|us|µs|ms|s|m|h)
RegexUnits ==
    {<<"n", "s">>, <<"u", "s">>, <<"µ", "s">>, <<"m", "s">>, <<"s">>, <<"m">>, <<"h">>}

\* The class [1-9]
NonZeroDigit(c) == c \in {"1", "2", "3", "4", "5", "6", "7", "8", "9"}

\* durRE.MatchString(s) for the unanchored "[1-9]+(ns|us|µs|ms|s|m|h)": some
\* run s[i..j] of the class [1-9] is followed at once by one of the units.
MatchString(s) ==
    \E i \in 1..Len(s) : \E j \in i..Len(s) :
        /\ \A k \in i..j : NonZeroDigit(s[k])
        /\ \E u \in RegexUnits : HasAt(s, j + 1, u)

\* func (g General) Validate() error
Validate(key, s) ==
    IF key = "" THEN "must include a Todoist API key"
    ELSE IF ~MatchString(s) THEN "the backup interval must be a valid duration"
    ELSE NoError

\* time.ParseDuration's unitMap, without the Greek-mu spelling of µs.
UnitMap ==
    {<<"n", "s">>, <<"u", "s">>, <<"µ", "s">>, <<"m", "s">>, <<"s">>, <<"m">>, <<"h">>}

\* Number of leading characters of s that are digits (leadingInt).
RECURSIVE DigitRun(_)
DigitRun(s) ==
    IF s # <<>> /\ isDigit(s, 1) THEN 1 + DigitRun(Tail(s)) ELSE 0

\* Number of leading characters of s that are neither "." nor a digit.
RECURSIVE UnitRun(_)
UnitRun(s) ==
    IF s # <<>> /\ s[1] # "." /\ ~isDigit(s, 1) THEN 1 + UnitRun(Tail(s)) ELSE 0

\* The value of a digit string.
RECURSIVE DigitsValue(_)
DigitsValue(ds) ==
    IF ds = <<>> THEN 0
    ELSE 10 * DigitsValue(SubSeq(ds, 1, Len(ds) - 1)) + DigitVal(ds[Len(ds)])

Drop(s, n) == SubSeq(s, n + 1, Len(s))

DurationError(msg) == [err |-> msg, neg |-> FALSE, parts |-> <<>>]

\* The loop of time.ParseDuration over [0-9]*(\.[0-9]*)?[a-z]+ groups; a
\* duration is kept as its sign and its groups, one per unit.
RECURSIVE ParseGroups(_, _, _)
ParseGroups(s, neg, parts) ==
    IF s = <<>> THEN [err |-> NoError, neg |-> neg, parts |-> parts]
    ELSE IF ~(s[1] = "." \/ isDigit(s, 1)) THEN DurationError("invalid duration")
    ELSE LET pre == DigitRun(s)
             s1 == Drop(s, pre)
             dot == s1 # <<>> /\ s1[1] = "."
             s2 == IF dot THEN Tail(s1) ELSE s1
             post == IF dot THEN DigitRun(s2) ELSE 0
             s3 == Drop(s2, post)
             ulen == UnitRun(s3)
             u == SubSeq(s3, 1, ulen)
         IN IF pre = 0 /\ post = 0 THEN DurationError("invalid duration")
            ELSE IF ulen = 0 THEN DurationError("missing unit in duration")
            ELSE IF u \notin UnitMap THEN DurationError("unknown unit in duration")
            ELSE ParseGroups(Drop(s3, ulen), neg,
                             Append(parts, [int |-> DigitsValue(SubSeq(s, 1, pre)),
                                            frac |-> DigitsValue(SubSeq(s2, 1, post)),
                                            unit |-> u]))

\* time.ParseDuration(s)
ParseDuration(s) ==
    LET signed == s # <<>> /\ s[1] \in {"-", "+"}
        neg == s # <<>> /\ s[1] = "-"
        t == IF signed THEN Tail(s) ELSE s
    IN IF t = <<"0">> THEN [err |-> NoError, neg |-> FALSE, parts |-> <<>>]
       ELSE IF t = <<>> THEN DurationError("invalid duration")
       ELSE ParseGroups(t, neg, <<>>)

InitConfig ==
    /\ cfpc = "validate"
    /\ apiKey \in ApiKeys
    /\ interval \in Intervals
    /\ verr = NoError
    /\ dur = [err |-> NoError, neg |-> FALSE, parts |-> <<>>]
    /\ cferr = NoError
    /\ pc = "idle" /\ MaxRetries = 0 /\ remaining = 0 /\ responses = <<>>
    /\ sends = 0 /\ sleeps = 0 /\ retResp = NoResponse /\ retErr = NoError
    /\ spc = "idle" /\ ab = <<>> /\ latestErr = FALSE
    /\ latest = [Version |-> <<>>, URL |-> ""]
    /\ cpc = "idle" /\ filename = <<>>
    /\ cleaned = [name |-> <<>>, err |-> FALSE, msg |-> "nil"]
    /\ recleaned = [name |-> <<>>, err |-> FALSE, msg |-> "nil"]
    /\ gpc = "idle" /\ maxBytes = 0 /\ payload = 0 /\ readable = 0
    /\ gresp = NoResponse /\ written = 0 /\ gerr = NoError
    /\ mpc = "idle" /\ oneshot = FALSE /\ exit = "none" /\ tickerCreated = FALSE
    /\ tickPending = FALSE /\ sigPending = FALSE /\ cycles = <<>>
    /\ sigAt = "none"
    /\ upc = "idle" /\ dest = "gdrive" /\ uname = <<>> /\ usent = <<>> /\ uerr = NoError

\* if err := c.General.Validate(); err != nil { log.Fatal() }
ValidateGeneral ==
    /\ cfpc = "validate"
    /\ verr' = Validate(apiKey, interval)
    /\ IF verr' # NoError
       THEN cfpc' = "exited" /\ cferr' = "Invalid config"
       ELSE cfpc' = "validateDrive" /\ UNCHANGED cferr
    /\ UNCHANGED <<apiKey, interval, dur>>

\* if err := c.GoogleDrive.Validate(); err != nil { log.Fatal() }
ValidateDrive(ok) ==
    /\ cfpc = "validateDrive"
    /\ IF ok
       THEN cfpc' = "parse" /\ UNCHANGED cferr
       ELSE cfpc' = "exited" /\ cferr' = "Invalid Google Drive config"
    /\ UNCHANGED <<apiKey, interval, verr, dur>>

\* dur, err := time.ParseDuration(c.General.BackupInterval)
ParseInterval ==
    /\ cfpc = "parse"
    /\ dur' = ParseDuration(interval)
    /\ IF dur'.err # NoError
       THEN cfpc' = "exited" /\ cferr' = "Could not parse the backup interval"
       ELSE cfpc' = "ready" /\ UNCHANGED cferr
    /\ UNCHANGED <<apiKey, interval, verr>>

NextConfig ==
    \/ ValidateGeneral
          /\ UNCHANGED <<retryVars, selectVars, cleanVars, backupVars, mainVars, uploadVars>>
    \/ (\E ok \in BOOLEAN : ValidateDrive(ok))
          /\ UNCHANGED <<retryVars, selectVars, cleanVars, backupVars, mainVars, uploadVars>>
    \/ ParseInterval
          /\ UNCHANGED <<retryVars, selectVars, cleanVars, backupVars, mainVars, uploadVars>>

SpecConfig == InitConfig /\ [][NextConfig]_vars

\* The duration is greater than zero.
IsPositive(d) ==
    /\ d.err = NoError
    /\ ~d.neg
    /\ \E i \in 1..Len(d.parts) : d.parts[i].int > 0 \/ d.parts[i].frac > 0

Validated == cfpc \in {"validateDrive", "parse", "ready"} \/ cferr \notin {NoError, "Invalid config"}

\* C21: a configuration that Validate accepts has an API key and an interval
\* that time.ParseDuration parses to a positive duration, an interval with
\* no unit, no number or an unsupported unit is rejected, and main never
\* fails to parse an interval that Validate accepted.
C21_AcceptedIntervalParses ==
    /\ Validated =>
          /\ apiKey # ""
          /\ IsPositive(ParseDuration(interval))
          /\ interval \notin {<<"3">>, <<"h">>, <<"3", "y">>}
    /\ cferr # "Could not parse the backup interval"

(***************************************************************************)
(* UploadFile: the last step of runBackup (src/main.go, src/gdrive,        *)
(* src/unnamed/part_001).                                                  *)
(*                                                                         *)
(* The Google Drive build of runBackup passes u.Version to                 *)
(* gdrive.UploadFile, the OneDrive build passes it to onedrive.UploadFile. *)
(* Both functions are exported and take any file name.                     *)
(***************************************************************************)

\* The file names UploadFile is called with: the version labels the selector
\* can return, the Version of the zero AvailableBackup, and short names that
\* the sanitizer changes or rejects.
UploadNames ==
    ValidVersions \cup {ZeroBackup.Version}
    \cup {Concat(ts) : ts \in UNION {[1..k -> Tokens] : k \in 1..2}}

\* What the calls of gdrive.UploadFile can meet: drive.NewService fails, the
\* folder query fails or finds no folder, more than one folder or one folder,
\* and then Files.Create fails or succeeds.
GDriveOutcomes ==
    {"service error", "list error", "no folder", "many folders", "create error", "created"}

\* What the PUT of onedrive.UploadFile can meet.
OneDriveOutcomes == {"transport error", "unexpected status", "created"}

InitUpload ==
    /\ upc = "call"
    /\ dest \in {"gdrive", "onedrive"}
    /\ uname \in UploadNames
    /\ usent = <<>>
    /\ uerr = NoError
    /\ pc = "idle" /\ MaxRetries = 0 /\ remaining = 0 /\ responses = <<>>
    /\ sends = 0 /\ sleeps = 0 /\ retResp = NoResponse /\ retErr = NoError
    /\ spc = "idle" /\ ab = <<>> /\ latestErr = FALSE
    /\ latest = [Version |-> <<>>, URL |-> ""]
    /\ cpc = "idle" /\ filename = <<>>
    /\ cleaned = [name |-> <<>>, err |-> FALSE, msg |-> "nil"]
    /\ recleaned = [name |-> <<>>, err |-> FALSE, msg |-> "nil"]
    /\ gpc = "idle" /\ maxBytes = 0 /\ payload = 0 /\ readable = 0
    /\ gresp = NoResponse /\ written = 0 /\ gerr = NoError
    /\ mpc = "idle" /\ oneshot = FALSE /\ exit = "none" /\ tickerCreated = FALSE
    /\ tickPending = FALSE /\ sigPending = FALSE /\ cycles = <<>>
    /\ sigAt = "none"
    /\ cfpc = "idle" /\ apiKey = "" /\ interval = <<>> /\ verr = NoError
    /\ dur = [err |-> NoError, neg |-> FALSE, parts |-> <<>>] /\ cferr = NoError

\* gdrive.UploadFile(&buf, u.Version, c.GoogleDrive)
GDriveUploadFile(outcome) ==
    /\ upc = "call"
    /\ dest = "gdrive"
    /\ usent' =
          IF outcome = "service error" THEN <<>>
          ELSE IF outcome \in {"list error", "no folder", "many folders"}
          THEN <<[op |-> "Files.List", name |-> <<>>]>>
          ELSE <<[op |-> "Files.List", name |-> <<>>],
                 [op |-> "Files.Create", name |-> uname]>>
    /\ uerr' = CASE outcome = "service error" -> "fatal"
                 [] outcome = "created" -> NoError
                 [] OTHER -> outcome
    /\ upc' = "done"
    /\ UNCHANGED <<dest, uname>>

\* onedrive.UploadFile(&buf, t, u.Version)
OneDriveUploadFile(outcome) ==
    /\ upc = "call"
    /\ dest = "onedrive"
    /\ LET fn == cleanFilename(uname)
       IN IF fn.err
          THEN usent' = <<>> /\ uerr' = fn.msg
          ELSE /\ usent' = <<[op |-> "PUT", name |-> fn.name]>>
               /\ uerr' = IF outcome = "created" THEN NoError ELSE outcome
    /\ upc' = "done"
    /\ UNCHANGED <<dest, uname>>

NextUpload ==
    \/ (\E outcome \in GDriveOutcomes : GDriveUploadFile(outcome))
          /\ UNCHANGED <<retryVars, selectVars, cleanVars, backupVars, mainVars, configVars>>
    \/ (\E outcome \in OneDriveOutcomes : OneDriveUploadFile(outcome))
          /\ UNCHANGED <<retryVars, selectVars, cleanVars, backupVars, mainVars, configVars>>

SpecUpload == InitUpload /\ [][NextUpload]_vars

\* The requests that carry the payload.
UploadRequests ==
    {i \in 1..Len(usent) : usent[i].op \in {"PUT", "Files.Create"}}

\* C22: every request that uploads the payload names it with the result of
\* cleanFilename on the given name, which succeeded; when cleanFilename fails
\* on the given name, no upload request is sent and its error is returned.
C22_UploadNameIsSanitized ==
    upc = "done" =>
        /\ \A i \in UploadRequests :
              /\ ~cleanFilename(uname).err
              /\ usent[i].name = cleanFilename(uname).name
        /\ cleanFilename(uname).err =>
              /\ UploadRequests = {}
              /\ uerr = cleanFilename(uname).msg

(***************************************************************************)
(* The interrupt and the running cycle (src/main.go).                      *)
(***************************************************************************)

\* No call of runBackup is cut short by the interrupt: when the process has
\* ended on the interrupt, every call has returned.
NoCycleAborted ==
    (mpc = "exited" /\ exit = "interrupted") =>
        /\ Running = {}
        /\ \A i \in 1..Len(cycles) : cycles[i].status = "done"

\* While runBackup is in progress a pending interrupt stays pending and the
\* process ends only by the failure of a step; a pending interrupt is taken
\* out of g nowhere but at the select, where it ends the process.
InterruptWaits ==
    /\ (mpc = "cycle" /\ sigPending) =>
          /\ sigPending'
          /\ mpc' \in {"cycle", "returned", "select", "exited"}
          /\ mpc' = "exited" => exit' = "fatal"
    /\ (sigPending /\ ~sigPending') =>
          /\ mpc = "select"
          /\ mpc' = "exited" /\ exit' = "interrupted"

\* C24: an interrupt that arrives during a call of runBackup does not end
\* that call, which returns or fails first; the interrupt stays in g until
\* main is at the select, the only place where it stops the process.
C24_InterruptWaitsForCycle ==
    []NoCycleAborted /\ [][InterruptWaits]_vars

C24_Witness ==
    /\ ~oneshot
    /\ mpc = "exited" /\ exit = "interrupted"
    /\ sigAt = "GetBackup"
    /\ LastCycle.trigger = "tick" /\ LastCycle.status = "done"

C24_WitnessPending ==
    /\ mpc = "select"
    /\ sigPending /\ sigAt = "GetAvailableBackups"
    /\ LastCycle.status = "done"

====
